---------------------------- MODULE Spec2Model ----------------------------
(***************************************************************************)
(* Model of scripts/fetch_hmt_spending_data.py: the header resolver        *)
(* (smart_find), the amount parser and normalize_dataframe, together with  *)
(* the top-level execution of the script, which binds the names            *)
(* smart_find and normalize_dataframe twice (lines 19/156 and 79/165).     *)
(*                                                                         *)
(* A Python str is a sequence of one-character strings.  Characters that   *)
(* are not ASCII are written by name: "POUND" (U+00A3), "NBSP" (U+00A0),   *)
(* "FIGDASH" (U+2012), "ENDASH" (U+2013), "EMDASH" (U+2014).               *)
(***************************************************************************)
EXTENDS Integers, Sequences, FiniteSets, TLC

VARIABLES
  pc,         \* control position: a top-level statement, or a step of main()
  bound,      \* module globals: name -> line of the def it is bound to (0: unbound)
  COL_MAPS,   \* module global COL_MAPS: field -> alias list (<<>> before line 117)
  months,     \* iterations of the loop of main() done so far
  df,         \* the table save_month_json decoded
  mapping,    \* locals of normalize_dataframe: the header mapping,
  out,        \* the frame before the row filter,
  norm,       \* and the records returned to save_month_json
  raised,     \* the exception main() caught last ("": none)
  arg,        \* argument of a function called on its own
  ret         \* and its result

vars == <<pc, bound, COL_MAPS, months, df, mapping, out, norm, raised, arg, ret>>

-----------------------------------------------------------------------------
(* Values *)

None == [t |-> "None"]                 \* Python None as a function result
NA == [t |-> "NA"]                     \* a missing cell (None / NaN / NaT / pd.NA)
Str(s) == [t |-> "str", s |-> s]       \* a str
Num(n, e) == [t |-> "num", n |-> n, e |-> e]   \* the float n * 10^(-e)

isna(c) == c.t = "NA"
truthy(r) == r.t = "str" /\ r.s # <<>>

-----------------------------------------------------------------------------
(* str methods *)

Upper ==
  "A" :> "a" @@ "B" :> "b" @@ "C" :> "c" @@ "D" :> "d" @@ "E" :> "e" @@
  "F" :> "f" @@ "G" :> "g" @@ "H" :> "h" @@ "I" :> "i" @@ "J" :> "j" @@
  "K" :> "k" @@ "L" :> "l" @@ "M" :> "m" @@ "N" :> "n" @@ "O" :> "o" @@
  "P" :> "p" @@ "Q" :> "q" @@ "R" :> "r" @@ "S" :> "s" @@ "T" :> "t" @@
  "U" :> "u" @@ "V" :> "v" @@ "W" :> "w" @@ "X" :> "x" @@ "Y" :> "y" @@
  "Z" :> "z"

Digits == {"0", "1", "2", "3", "4", "5", "6", "7", "8", "9"}

AlnumLower == {Upper[c] : c \in DOMAIN Upper} \cup Digits

Whitespace == {" ", "NBSP"}

lower(s) == [i \in 1..Len(s) |-> IF s[i] \in DOMAIN Upper THEN Upper[s[i]] ELSE s[i]]

RECURSIVE lstrip(_)
lstrip(s) ==
  IF s # <<>> /\ Head(s) \in Whitespace THEN lstrip(Tail(s)) ELSE s

RECURSIVE rstrip(_)
rstrip(s) ==
  IF s # <<>> /\ s[Len(s)] \in Whitespace
    THEN rstrip(SubSeq(s, 1, Len(s) - 1))
    ELSE s

strip(s) == rstrip(lstrip(s))

RECURSIVE replace(_, _, _)
replace(s, old, new) ==
  IF s = <<>> THEN <<>>
  ELSE (IF Head(s) = old THEN new ELSE <<Head(s)>>) \o replace(Tail(s), old, new)

contains(sub, s) ==
  \E i \in 0..(Len(s) - Len(sub)) : SubSeq(s, i + 1, i + Len(sub)) = sub

index(list, x) == CHOOSE i \in 1..Len(list) : list[i] = x /\ \A j \in 1..(i - 1) : list[j] # x

in(x, list) == \E i \in 1..Len(list) : list[i] = x

-----------------------------------------------------------------------------
(* Header canonicalization and alias resolution *)

RECURSIVE collapse_ws(_)
collapse_ws(s) ==
  IF s = <<>> THEN <<>>
  ELSE IF Head(s) \in Whitespace
    THEN <<" ">> \o collapse_ws(lstrip(s))
    ELSE <<Head(s)>> \o collapse_ws(Tail(s))

_canon(s) ==
  SelectSeq(collapse_ws(lower(strip(s))), LAMBDA c : c \in AlnumLower)

smart_find_19(cols_lower, candidates) ==
  LET canon_cols == [j \in 1..Len(cols_lower) |-> _canon(cols_lower[j])]
      cand_canon == [i \in 1..Len(candidates) |-> _canon(candidates[i])]
      exact == {i \in 1..Len(cand_canon) : in(cand_canon[i], canon_cols)}
      partial == {p \in (1..Len(cand_canon)) \X (1..Len(canon_cols)) :
                    cand_canon[p[1]] # <<>> /\ contains(cand_canon[p[1]], canon_cols[p[2]])}
  IN IF exact # {}
       THEN LET i == CHOOSE i \in exact : \A k \in exact : i <= k
            IN Str(cols_lower[index(canon_cols, cand_canon[i])])
     ELSE IF partial # {}
       THEN LET p == CHOOSE p \in partial :
                       \A q \in partial : p[1] < q[1] \/ (p[1] = q[1] /\ p[2] <= q[2])
            IN Str(cols_lower[p[2]])
     ELSE None

smart_find_156(cols_lower, candidates) ==
  LET cols_ns == [j \in 1..Len(cols_lower) |-> replace(cols_lower[j], " ", <<>>)]
      cn(i) == replace(candidates[i], " ", <<>>)
      literal == {i \in 1..Len(candidates) : in(candidates[i], cols_lower)}
      nospace == {i \in 1..Len(candidates) : in(cn(i), cols_ns)}
  IN IF literal # {}
       THEN Str(candidates[CHOOSE i \in literal : \A k \in literal : i <= k])
     ELSE IF nospace # {}
       THEN LET i == CHOOSE i \in nospace : \A k \in nospace : i <= k
            IN Str(cols_lower[index(cols_ns, cn(i))])
     ELSE None

COL_MAPS_117 ==
  ("department_family" :> <<
      <<"d","e","p","a","r","t","m","e","n","t"," ","f","a","m","i","l","y">>,
      <<"d","e","p","a","r","t","m","e","n","t">>,
      <<"d","e","p","a","r","t","m","e","n","t","f","a","m","i","l","y">> >>)
  @@ ("entity" :> <<
      <<"e","n","t","i","t","y">>,
      <<"b","o","d","y">>,
      <<"e","n","t","i","t","y"," ","n","a","m","e">> >>)
  @@ ("date" :> <<
      <<"p","a","y","m","e","n","t"," ","d","a","t","e">>,
      <<"d","a","t","e">> >>)
  @@ ("expense_type" :> <<
      <<"e","x","p","e","n","s","e"," ","t","y","p","e">>,
      <<"e","x","p","e","n","d","i","t","u","r","e"," ","t","y","p","e">>,
      <<"t","y","p","e">> >>)
  @@ ("expense_area" :> <<
      <<"e","x","p","e","n","s","e"," ","a","r","e","a">>,
      <<"c","o","s","t"," ","c","e","n","t","r","e">>,
      <<"e","x","p","e","n","s","e","a","r","e","a">> >>)
  @@ ("supplier" :> <<
      <<"s","u","p","p","l","i","e","r">>,
      <<"v","e","n","d","o","r">>,
      <<"s","u","p","p","l","i","e","r"," ","n","a","m","e">> >>)
  @@ ("transaction_number" :> <<
      <<"v","o","u","c","h","e","r"," ","n","u","m","b","e","r">>,
      <<"t","r","a","n","s","a","c","t","i","o","n"," ","n","u","m","b","e","r">>,
      <<"t","r","a","n","s","a","c","t","i","o","n"," ","n","o">>,
      <<"t","r","a","n","s","a","c","t","i","o","n"," ","i","d">> >>)
  @@ ("amount_gbp" :> <<
      <<"a","m","o","u","n","t">>,
      <<"POUND">>,
      <<"g","b","p">>,
      <<"a","m","o","u","n","t"," ","POUND">>,
      <<"n","e","t"," ","a","m","o","u","n","t">>,
      <<"v","a","l","u","e">> >>)
  @@ ("description" :> <<
      <<"p","u","b","l","i","c","a","t","i","o","n"," ","d","e","s","c","r","i","p","t","i","o","n">>,
      <<"d","e","s","c","r","i","p","t","i","o","n">>,
      <<"i","t","e","m"," ","t","e","x","t">>,
      <<"n","a","r","r","a","t","i","v","e">> >>)
  @@ ("supplier_postcode" :> <<
      <<"s","u","p","p","l","i","e","r"," ","p","o","s","t","c","o","d","e">>,
      <<"p","o","s","t","a","l"," ","c","o","d","e">>,
      <<"p","o","s","t"," ","c","o","d","e">>,
      <<"p","o","s","t","c","o","d","e">> >>)
  @@ ("supplier_type" :> <<
      <<"s","u","p","p","l","i","e","r"," ","t","y","p","e">>,
      <<"s","u","p","p","l","i","e","r"," ","c","a","t","e","g","o","r","y">> >>)
  @@ ("contract_number" :> <<
      <<"c","o","n","t","r","a","c","t"," ","n","u","m","b","e","r">>,
      <<"c","o","n","t","r","a","c","t"," ","n","o">>,
      <<"p","o"," ","n","u","m","b","e","r">>,
      <<"p","u","r","c","h","a","s","e"," ","o","r","d","e","r">> >>)
  @@ ("project_code" :> <<
      <<"p","r","o","j","e","c","t"," ","c","o","d","e">>,
      <<"p","r","o","j","e","c","t">>,
      <<"c","o","s","t"," ","c","o","d","e">> >>)
  @@ ("item_text" :> <<
      <<"i","t","e","m"," ","t","e","x","t">> >>)
\* the alias list line 84 assigns to COL_MAPS["amount_gbp"]
amount_gbp_84 ==
  <<
    <<"a","m","o","u","n","t">>,
    <<"a","m","o","u","n","t"," ","g","b","p">>,
    <<"a","m","o","u","n","t"," ","(","g","b","p",")">>,
    <<"a","m","o","u","n","t","("," ","g","b","p"," ",")">>,
    <<"a","m","o","u","n","t"," ","POUND">>,
    <<"POUND">>,
    <<"g","b","p">>,
    <<"n","e","t"," ","a","m","o","u","n","t">>,
    <<"n","e","t"," ","a","m","o","u","n","t"," ","g","b","p">>,
    <<"v","a","l","u","e">>,
    <<"n","e","t"," ","v","a","l","u","e">>,
    <<"a","m","o","u","n","t","_","g","b","p">>,
    <<"a","m","t">>,
    <<"g","r","o","s","s"," ","a","m","o","u","n","t">>,
    <<"l","i","n","e"," ","a","m","o","u","n","t">> >>

FieldOrder ==
  << "department_family", "entity", "date", "expense_type", "expense_area", "supplier", "transaction_number", "amount_gbp", "description", "supplier_postcode", "supplier_type", "contract_number", "project_code", "item_text" >>

-----------------------------------------------------------------------------
(* Amount parsing *)

DigitVal ==
  "0" :> 0 @@ "1" :> 1 @@ "2" :> 2 @@ "3" :> 3 @@ "4" :> 4 @@
  "5" :> 5 @@ "6" :> 6 @@ "7" :> 7 @@ "8" :> 8 @@ "9" :> 9

RECURSIVE int(_)
int(ds) ==
  IF ds = <<>> THEN 0 ELSE 10 * int(SubSeq(ds, 1, Len(ds) - 1)) + DigitVal[ds[Len(ds)]]

RECURSIVE NumOf(_, _)
NumOf(n, e) ==
  IF e > 0 /\ n % 10 = 0 THEN NumOf(n \div 10, e - 1) ELSE Num(n, e)

\* float(token) for a token matched by -?\d+(?:\.\d+)?, exact for the
\* tokens of at most 15 significant digits used here
float(tok) ==
  LET neg == Head(tok) = "-"
      body == IF neg THEN Tail(tok) ELSE tok
      dot == IF in(".", body) THEN index(body, ".") ELSE Len(body) + 1
      ip == SubSeq(body, 1, dot - 1)
      fp == SubSeq(body, dot + 1, Len(body))
      m == int(ip \o fp)
  IN NumOf(IF neg THEN 0 - m ELSE m, Len(fp))

\* str(x) as Series.astype(str) applies it to a str cell or a missing one
\* ("None", "nan", "<NA>": no digit in any of them)
str(c) == IF c.t = "str" THEN c.s ELSE <<"n", "a", "n">>

run_end(s, i) ==
  CHOOSE j \in i..Len(s) :
    /\ \A k \in i..j : s[k] \in Digits
    /\ (j = Len(s) \/ s[j + 1] \notin Digits)

\* Series.str.extract(r"(-?\d+(?:\.\d+)?)"): the leftmost match, or NaN
extract(s) ==
  LET ds == {i \in 1..Len(s) : s[i] \in Digits}
  IN IF ds = {} THEN NA
     ELSE LET d == CHOOSE i \in ds : \A k \in ds : i <= k
              start == IF d > 1 /\ s[d - 1] = "-" THEN d - 1 ELSE d
              iend == run_end(s, d)
              frac == iend + 2 <= Len(s) /\ s[iend + 1] = "." /\ s[iend + 2] \in Digits
              end == IF frac THEN run_end(s, iend + 2) ELSE iend
          IN Str(SubSeq(s, start, end))

to_float(x) == IF x.t = "str" THEN float(x.s) ELSE NA

\* lines 57-59: unicode dashes to ASCII minus
dashes(t) ==
  replace(replace(replace(t, "FIGDASH", <<"-">>), "ENDASH", <<"-">>), "EMDASH", <<"-">>)

\* lines 62-65: strip currency symbols, commas, spaces
symbols(t) ==
  strip(replace(replace(replace(t, "POUND", <<>>), ",", <<>>), "NBSP", <<" ">>))

\* line 68: ^\((.*)\)$ -> -\1
parens(t) ==
  IF Len(t) >= 2 /\ t[1] = "(" /\ t[Len(t)] = ")"
    THEN <<"-">> \o SubSeq(t, 2, Len(t) - 1)
    ELSE t

\* t matches ^(\d+(?:\.\d+)?)\-$
bare_number_minus(t) ==
  /\ Len(t) >= 2
  /\ t[Len(t)] = "-"
  /\ t[1] \in Digits
  /\ LET e1 == run_end(t, 1)
     IN \/ e1 = Len(t) - 1
        \/ /\ e1 + 2 <= Len(t) - 1
           /\ t[e1 + 1] = "."
           /\ t[e1 + 2] \in Digits
           /\ run_end(t, e1 + 2) = Len(t) - 1

\* line 71: trailing minus, 1234- -> -1234
trailing_minus(t) ==
  IF bare_number_minus(t) THEN <<"-">> \o SubSeq(t, 1, Len(t) - 1) ELSE t

\* one element of _parse_amount_series on the str path, lines 54-77
parse_amount_str(c) ==
  to_float(extract(trailing_minus(parens(symbols(dashes(str(c)))))))

_parse_amount_series(s) ==
  IF \A i \in 1..Len(s) : s[i].t \in {"num", "NA"}
    THEN s
    ELSE [i \in 1..Len(s) |-> parse_amount_str(s[i])]

\* variant: the thousands separators are left in place
amount_gbp_176_commas(c) ==
  to_float(extract(replace(replace(str(c), "POUND", <<>>), " ", <<>>)))

\* one element of the amount pipeline of normalize_dataframe (line 165)
amount_gbp_176(c) ==
  to_float(extract(replace(replace(replace(str(c), ",", <<>>), "POUND", <<>>), " ", <<>>)))

-----------------------------------------------------------------------------
(* normalize_dataframe *)

Fields == {FieldOrder[i] : i \in 1..Len(FieldOrder)}

\* name lookup in the module globals at call time
smart_find(b, cols_lower, candidates) ==
  IF b["smart_find"] = 156
    THEN smart_find_156(cols_lower, candidates)
    ELSE smart_find_19(cols_lower, candidates)

\* the header chosen for one field: lines 166, 169-170
resolve_165(b, columns, aliases) ==
  LET cols_lower == [i \in 1..Len(columns) |-> lower(strip(columns[i]))]
      f == smart_find(b, cols_lower, aliases)
  IN IF truthy(f) THEN Str(columns[index(cols_lower, f.s)]) ELSE None

\* the header chosen for one field: lines 80, 91-93
resolve_79(b, columns, aliases) ==
  LET cols_lower == [i \in 1..Len(columns) |-> strip(columns[i])]
      f == smart_find(b, cols_lower, aliases)
  IN IF truthy(f) THEN Str(columns[index(cols_lower, f.s)]) ELSE None

IsISODate(s) ==
  /\ Len(s) = 10
  /\ \A i \in {1, 2, 3, 4, 6, 7, 9, 10} : s[i] \in Digits
  /\ s[5] = "-" /\ s[8] = "-"
  /\ LET y == int(SubSeq(s, 1, 4))
         m == int(SubSeq(s, 6, 7))
         d == int(SubSeq(s, 9, 10))
         leap == y % 4 = 0 /\ (y % 100 # 0 \/ y % 400 = 0)
     IN /\ y \in 1678..2261        \* within the bounds of a pandas Timestamp
        /\ m \in 1..12
        /\ d >= 1
        /\ d <= (IF m = 2 THEN (IF leap THEN 29 ELSE 28)
                 ELSE IF m \in {4, 6, 9, 11} THEN 30 ELSE 31)

\* pd.to_datetime(errors="coerce") followed by strftime("%Y-%m-%d"), for
\* the two kinds of cell the tables hold: a YYYY-MM-DD date and text
\* without a digit
to_datetime_strftime(c) ==
  IF c.t = "str" /\ IsISODate(c.s) THEN c ELSE NA

parse_dates(col) ==
  IF \E r \in 1..Len(col) : ~isna(col[r])
    THEN [r \in 1..Len(col) |-> to_datetime_strftime(col[r])]
    ELSE col

\* df[h]: the column under header h
column(d, h) == [r \in 1..Len(d.rows) |-> d.rows[r][index(d.columns, h)]]

\* variant: a column is created only for a mapped field or one read later on
project_mapped(d, m, n) ==
  [k \in DOMAIN m \cup {"date", "amount_gbp", "supplier"} |->
     IF k \in DOMAIN m THEN column(d, m[k]) ELSE [r \in 1..n |-> NA]]

\* for k in COL_MAPS.keys(): out[k] = df[mapping[k]] if k in mapping else None
project(d, m, n) ==
  [k \in Fields |-> IF k \in DOMAIN m THEN column(d, m[k]) ELSE [r \in 1..n |-> NA]]

\* the rows of out once the date and amount columns are replaced
frame(raw, date, amount) ==
  [r \in 1..Len(date) |->
    [k \in DOMAIN raw |-> IF k = "date" THEN date[r]
                          ELSE IF k = "amount_gbp" THEN amount[r]
                          ELSE raw[k][r]]]

\* lines 166-170
mapping_165(d, b, cm) ==
  LET found == [k \in Fields |-> resolve_165(b, d.columns, cm[k])]
  IN [k \in {f \in Fields : found[f] # None} |-> found[k].s]

amounts_176(col) == [r \in 1..Len(col) |-> amount_gbp_176(col[r])]

\* lines 174-180
parsed_165(raw) == frame(raw, parse_dates(raw["date"]), amounts_176(raw["amount_gbp"]))

\* lines 171-180; out = pd.DataFrame() has no index until a column of df
\* is assigned to it
out_165(d, m) == parsed_165(project(d, m, IF DOMAIN m = {} THEN 0 ELSE Len(d.rows)))

\* lines 181-182
filter_165(m, o, cm) ==
  [mapping |-> m,
   out |-> o,
   norm |-> SelectSeq(o, LAMBDA rec : ~(isna(rec["supplier"]) /\ isna(rec["amount_gbp"]))),
   COL_MAPS |-> cm]

filtered_165(d, m, cm) == filter_165(m, out_165(d, m), cm)

normalize_dataframe_165(d, b, cm) == filtered_165(d, mapping_165(d, b, cm), cm)

KeyFields == {"supplier", "amount_gbp", "date", "description"}

\* lines 90-93
mapping_79(d, b, cm) ==
  LET found == [k \in Fields |-> resolve_79(b, d.columns, cm[k])]
  IN [k \in {f \in Fields : found[f] # None} |-> found[k].s]

\* lines 101-107
parsed_79(raw) == frame(raw, parse_dates(raw["date"]), _parse_amount_series(raw["amount_gbp"]))

\* lines 95-107; out has the index of df
out_79(d, m) == parsed_79(project(d, m, Len(d.rows)))

\* lines 109-114
filter_79(m, o, cm) ==
  LET key_cols == {c \in KeyFields : c \in Fields}
  IN [mapping |-> m,
      out |-> o,
      norm |-> IF key_cols # {}
                 THEN SelectSeq(o, LAMBDA rec : ~(\A c \in key_cols : isna(rec[c])))
                 ELSE o,
      COL_MAPS |-> cm]

filtered_79(d, m, cm) == filter_79(m, out_79(d, m), cm)

\* lines 83-88 assign the global, the rest of the call reads it
widened(cm) == [cm EXCEPT !["amount_gbp"] = amount_gbp_84]

normalize_dataframe_79(d, b, cm) ==
  filtered_79(d, mapping_79(d, b, widened(cm)), widened(cm))

\* the call normalize_dataframe(df) of line 199, looked up in the globals
normalize_dataframe(d, b, cm) ==
  IF b["normalize_dataframe"] = 165
    THEN normalize_dataframe_165(d, b, cm)
    ELSE normalize_dataframe_79(d, b, cm)

-----------------------------------------------------------------------------
(* Bounds and inputs *)

MaxMonths == 2        \* iterations of the month loop of main()
MaxHeaders == 2       \* columns of a generated table
MaxRows == 2          \* rows of a generated table
MaxCols == 2          \* headers given to the resolver under test
MaxAliases == 2       \* aliases given to the resolver under test
MaxIntDigits == 4     \* integer digits of an amount under test
MaxFracDigits == 2    \* fraction digits of an amount under test

SeqsUpTo(S, n) == UNION {[1..k -> S] : k \in 0..n}

Distinct(s) == \A i, j \in 1..Len(s) : i # j => s[i] # s[j]

h_supplier == <<"S","u","p","p","l","i","e","r">>
h_amount == <<"A","m","o","u","n","t">>
h_payment_date == <<"P","a","y","m","e","n","t"," ","D","a","t","e">>
h_description == <<"D","e","s","c","r","i","p","t","i","o","n">>
h_entity == <<"E","n","t","i","t","y">>

TableHeaderPool == {h_supplier, h_description, h_entity}

IsoText == Str(<<"2","0","2","4","-","0","1","-","3","1">>)

CellPool == {NA, IsoText}

KeyCellPool == CellPool \cup {Str(<<"n","/","a">>)}

KeyHeaders == <<h_supplier, h_amount, h_payment_date, h_description>>

CanonicalHeaders ==
  << <<"d","e","p","a","r","t","m","e","n","t","_","f","a","m","i","l","y">>,
     <<"e","n","t","i","t","y">>,
     <<"d","a","t","e">>,
     <<"e","x","p","e","n","s","e","_","t","y","p","e">>,
     <<"e","x","p","e","n","s","e","_","a","r","e","a">>,
     <<"s","u","p","p","l","i","e","r">>,
     <<"t","r","a","n","s","a","c","t","i","o","n","_","n","u","m","b","e","r">>,
     <<"a","m","o","u","n","t","_","g","b","p">>,
     <<"d","e","s","c","r","i","p","t","i","o","n">>,
     <<"s","u","p","p","l","i","e","r","_","p","o","s","t","c","o","d","e">>,
     <<"s","u","p","p","l","i","e","r","_","t","y","p","e">>,
     <<"c","o","n","t","r","a","c","t","_","n","u","m","b","e","r">>,
     <<"p","r","o","j","e","c","t","_","c","o","d","e">>,
     <<"i","t","e","m","_","t","e","x","t">> >>

\* a clean canonical row: every cell the same ISO date text, or only some
\* of the fields populated
CanonicalRows ==
  {[i \in 1..14 |-> IF FieldOrder[i] \in S THEN IsoText ELSE NA] :
     S \in {Fields, {"description"}, {"supplier", "date"}, {"entity"}, {}}}

HeaderLists == {c \in SeqsUpTo(TableHeaderPool, MaxHeaders) : Distinct(c)}

RowsOf(h, cells, n) == SeqsUpTo([1..Len(h) -> cells], n)

\* a DataFrame: distinct column labels, every row as long as the columns;
\* a frame read from a sheet without columns has no rows
Tables ==
  UNION {{[columns |-> h, rows |-> r] :
            r \in IF h = <<>> THEN {<<>>} ELSE RowsOf(h, CellPool, MaxRows)} :
         h \in HeaderLists}
  \cup {[columns |-> KeyHeaders, rows |-> r] : r \in RowsOf(KeyHeaders, KeyCellPool, 1)}
  \cup {[columns |-> CanonicalHeaders, rows |-> r] : r \in SeqsUpTo(CanonicalRows, 2)}

NoTable == [columns |-> <<>>, rows |-> <<>>]

-----------------------------------------------------------------------------
(* Top-level execution of the script *)

\* the top-level statements that bind the names the model follows
Program ==
  << [pc |-> "L19", name |-> "smart_find", line |-> 19],
     [pc |-> "L79", name |-> "normalize_dataframe", line |-> 79],
     [pc |-> "L117", name |-> "COL_MAPS", line |-> 117],
     [pc |-> "L156", name |-> "smart_find", line |-> 156],
     [pc |-> "L165", name |-> "normalize_dataframe", line |-> 165] >>

\* variant: a name keeps the first function it was bound to
def_first(b, name, line) == IF b[name] = 0 THEN [b EXCEPT ![name] = line] ELSE b

\* a def statement binds its name to the new function object
def(b, name, line) == [b EXCEPT ![name] = line]

Unbound == [smart_find |-> 0, normalize_dataframe |-> 0]

Init ==
  /\ pc = "L19"
  /\ bound = Unbound
  /\ COL_MAPS = <<>>
  /\ months = 0
  /\ df = NoTable
  /\ mapping = <<>>
  /\ out = <<>>
  /\ norm = <<>>
  /\ raised = ""
  /\ arg = <<>>
  /\ ret = <<>>

ExecStatement ==
  \E i \in 1..Len(Program) :
    /\ pc = Program[i].pc
    /\ pc' = IF i < Len(Program) THEN Program[i + 1].pc ELSE "main"
    /\ IF Program[i].name = "COL_MAPS"
         THEN COL_MAPS' = COL_MAPS_117 /\ UNCHANGED bound
         ELSE bound' = def(bound, Program[i].name, Program[i].line) /\ UNCHANGED COL_MAPS
    /\ UNCHANGED <<months, df, mapping, out, norm, raised, arg, ret>>

\* main(), lines 225-235: the publication page or its spreadsheet link is missing
skip_month ==
  /\ pc = "main" /\ months < MaxMonths
  /\ months' = months + 1
  /\ raised' = ""
  /\ UNCHANGED <<pc, bound, COL_MAPS, df, mapping, out, norm, arg, ret>>

\* save_month_json, lines 185-197: the asset is fetched and decoded
read_table ==
  /\ pc = "main" /\ months < MaxMonths
  /\ \E t \in Tables : df' = t
  /\ pc' = "normalize"
  /\ raised' = ""
  /\ UNCHANGED <<bound, COL_MAPS, months, mapping, out, norm, arg, ret>>

\* save_month_json, lines 187-197 raise (HTTP error, undecodable file);
\* main() catches the exception at line 239 and goes on to the next month
read_raises ==
  /\ pc = "main" /\ months < MaxMonths
  /\ \E e \in {"HTTPError", "ParserError"} : raised' = e
  /\ months' = months + 1
  /\ UNCHANGED <<pc, bound, COL_MAPS, df, mapping, out, norm, arg, ret>>

\* save_month_json, line 199
call_normalize_dataframe ==
  /\ pc = "normalize"
  /\ LET r == normalize_dataframe(df, bound, COL_MAPS)
     IN /\ mapping' = r.mapping
        /\ out' = r.out
        /\ norm' = r.norm
        /\ COL_MAPS' = r.COL_MAPS
  /\ pc' = "write"
  /\ UNCHANGED <<bound, months, df, raised, arg, ret>>

\* save_month_json, lines 200-211: the records are written and the locals dropped
write_json ==
  /\ pc = "write"
  /\ df' = NoTable /\ mapping' = <<>> /\ out' = <<>> /\ norm' = <<>>
  /\ months' = months + 1
  /\ pc' = "main"
  /\ UNCHANGED <<bound, COL_MAPS, raised, arg, ret>>

Next ==
  \/ ExecStatement
  \/ skip_month
  \/ read_table
  \/ read_raises
  \/ call_normalize_dataframe
  \/ write_json

Spec == Init /\ [][Next]_vars

-----------------------------------------------------------------------------
(* The resolver and the amount parser called on their own, with the globals *)
(* as the script leaves them when main() starts                             *)

RECURSIVE Load(_, _)
Load(b, i) ==
  IF i > Len(Program) THEN b
  ELSE Load(IF Program[i].name = "COL_MAPS" THEN b
            ELSE def(b, Program[i].name, Program[i].line), i + 1)

\* the header resolution normalize_dataframe performs for one alias list
resolve(b, columns, aliases) ==
  IF b["normalize_dataframe"] = 165
    THEN resolve_165(b, columns, aliases)
    ELSE resolve_79(b, columns, aliases)

\* the amount parsing normalize_dataframe performs on one cell
parse_amount(b, c) ==
  IF b["normalize_dataframe"] = 165
    THEN amount_gbp_176(c)
    ELSE _parse_amount_series(<<c>>)[1]

ResolveHeaderPool ==
  { <<"A","m","o","u","n","t"," ","(","G","B","P",")">>,
    <<"a","m","o","u","n","t"," ","g","b","p">>,
    <<"N","e","t"," ","A","m","o","u","n","t"," ","G","B","P">>,
    <<"G","B","P">>,
    <<"POUND">>,
    <<"#">> }

AliasPool ==
  { <<"a","m","o","u","n","t"," ","g","b","p">>,
    <<"a","m","o","u","n","t">>,
    <<"g","b","p">>,
    <<"POUND">>,
    <<>> }

ResolveInputs ==
  {[columns |-> h, aliases |-> a] :
     h \in {c \in SeqsUpTo(ResolveHeaderPool, MaxCols) : Distinct(c)},
     a \in SeqsUpTo(AliasPool, MaxAliases)}

InitResolve ==
  /\ pc = "resolve"
  /\ bound = Load(Unbound, 1)
  /\ COL_MAPS = COL_MAPS_117
  /\ months = 0
  /\ df = NoTable
  /\ mapping = <<>>
  /\ out = <<>>
  /\ norm = <<>>
  /\ raised = ""
  /\ arg \in ResolveInputs
  /\ ret = <<>>

call_resolve ==
  /\ pc = "resolve"
  /\ ret' = resolve(bound, arg.columns, arg.aliases)
  /\ pc' = "returned"
  /\ UNCHANGED <<bound, COL_MAPS, months, df, mapping, out, norm, raised, arg>>

SpecResolve == InitResolve /\ [][call_resolve]_vars

IntDigitPool == {"0", "1"}

FracDigitPool == {"0", "5"}

\* the ways of writing a negative amount: none, (N), N- with one of four dashes
NegForms == {"none", "paren", "-", "FIGDASH", "ENDASH", "EMDASH"}

AmountInputs ==
  {[ip |-> ip, fp |-> fp, pound |-> f[1], commas |-> f[2], lead |-> f[3], trail |-> f[4], neg |-> f[5]] :
     ip \in SeqsUpTo(IntDigitPool, MaxIntDigits) \ {<<>>},
     fp \in SeqsUpTo(FracDigitPool, MaxFracDigits),
     f \in {g \in BOOLEAN \X BOOLEAN \X (0..1) \X (0..1) \X NegForms :
              g[5] # "none" => (g[3] = 0 /\ g[4] = 0)}}

RECURSIVE group(_)
group(ip) ==
  IF Len(ip) <= 3 THEN ip
  ELSE group(SubSeq(ip, 1, Len(ip) - 3)) \o <<",">> \o SubSeq(ip, Len(ip) - 2, Len(ip))

plain(a) == a.ip \o (IF a.fp = <<>> THEN <<>> ELSE <<".">> \o a.fp)

amount_text(a) ==
  LET number == (IF a.commas THEN group(a.ip) ELSE a.ip)
                  \o (IF a.fp = <<>> THEN <<>> ELSE <<".">> \o a.fp)
      core == (IF a.pound THEN <<"POUND">> ELSE <<>>) \o number
      sp(n) == [i \in 1..n |-> " "]
  IN IF a.neg = "none" THEN sp(a.lead) \o core \o sp(a.trail)
     ELSE IF a.neg = "paren" THEN <<"(">> \o core \o <<")">>
     ELSE core \o <<a.neg>>

InitAmount ==
  /\ pc = "parse_amount"
  /\ bound = Load(Unbound, 1)
  /\ COL_MAPS = COL_MAPS_117
  /\ months = 0
  /\ df = NoTable
  /\ mapping = <<>>
  /\ out = <<>>
  /\ norm = <<>>
  /\ raised = ""
  /\ arg \in AmountInputs
  /\ ret = <<>>

call_parse_amount ==
  /\ pc = "parse_amount"
  /\ ret' = parse_amount(bound, Str(amount_text(arg)))
  /\ pc' = "returned"
  /\ UNCHANGED <<bound, COL_MAPS, months, df, mapping, out, norm, raised, arg>>

SpecAmount == InitAmount /\ [][call_parse_amount]_vars

-----------------------------------------------------------------------------
(* Properties *)

CanonicalFieldSet ==
  {"department_family", "entity", "date", "expense_type", "expense_area",
   "supplier", "transaction_number", "amount_gbp", "description",
   "supplier_postcode", "supplier_type", "contract_number", "project_code",
   "item_text"}

\* the value of a digit string, most significant digit first
Horner(ds) ==
  LET v[i \in 0..Len(ds)] == IF i = 0 THEN 0 ELSE 10 * v[i - 1] + DigitVal[ds[i]]
  IN v[Len(ds)]

Pow10(k) ==
  LET p[i \in 0..k] == IF i = 0 THEN 1 ELSE 10 * p[i - 1]
  IN p[k]

\* r is the number sign * ip.fp
IsAmount(r, sign, ip, fp) ==
  /\ r.t = "num"
  /\ r.e <= Len(fp)
  /\ r.n * Pow10(Len(fp) - r.e) = sign * Horner(ip \o fp)

\* C1: when some alias has the canonical form of some header, resolve returns
\* the first header (table order) whose canonical form is that of the earliest
\* alias (alias order) having such a header; never none, never another header.
\* (Stated for aliases whose canonical form is not empty; C10 is about the others.)
C1_ExactMatchReturned ==
  LET hit(i) == /\ _canon(arg.aliases[i]) # <<>>
                /\ \E j \in 1..Len(arg.columns) : _canon(arg.columns[j]) = _canon(arg.aliases[i])
      hits == {i \in 1..Len(arg.aliases) : hit(i)}
  IN (pc = "returned" /\ DOMAIN arg = {"columns", "aliases"} /\ hits # {}) =>
       LET i == CHOOSE i \in hits : \A k \in hits : i <= k
           j == CHOOSE j \in 1..Len(arg.columns) :
                  /\ _canon(arg.columns[j]) = _canon(arg.aliases[i])
                  /\ \A m \in 1..(j - 1) : _canon(arg.columns[m]) # _canon(arg.aliases[i])
       IN ret = Str(arg.columns[j])

\* C2: normalize drops a row exactly when supplier, amount_gbp, date and
\* description are all absent in it after projection and parsing; the
\* records returned are the other rows, in order.
C2_DroppedIffAllKeysAbsent ==
  pc = "write" =>
    norm = SelectSeq(out, LAMBDA rec :
             \E k \in {"supplier", "amount_gbp", "date", "description"} : ~isna(rec[k]))

\* C3: when none of supplier, amount_gbp, date, description resolves to a
\* header, no row is filtered: every input row is in the output, in order.
C3_NoKeyFieldNoFiltering ==
  (pc = "write" /\ DOMAIN mapping \cap {"supplier", "amount_gbp", "date", "description"} = {}) =>
    /\ Len(norm) = Len(df.rows)
    /\ \A r \in 1..Len(norm) : \A k \in DOMAIN mapping :
         norm[r][k] = df.rows[r][index(df.columns, mapping[k])]

\* C4: every record returned exposes exactly the 14 canonical fields, and a
\* field without a resolved header is there with the absent marker.
C4_FullFieldSet ==
  pc = "write" =>
    \A i \in 1..Len(norm) :
      /\ DOMAIN norm[i] = CanonicalFieldSet
      /\ \A k \in CanonicalFieldSet \ DOMAIN mapping : isna(norm[i][k])

C4_Witness ==
  /\ pc = "write"
  /\ Len(norm) = 2
  /\ DOMAIN mapping # {}
  /\ CanonicalFieldSet \ DOMAIN mapping # {}

C6_NegativeForms ==
  (pc = "returned" /\ DOMAIN arg # {"columns", "aliases"} /\ arg.neg # "none") =>
    IsAmount(ret, -1, arg.ip, arg.fp)

C8_MalformedTableRaises ==
  (pc = "write" /\ df.columns = <<>>) => raised = "MalformedTable"

\* C9: on a table whose headers are the 14 canonical field names and whose
\* cells are clean, every field is mapped to the header of its own name and
\* every returned value is the input value.
C9_CanonicalTableIdentity ==
  (pc = "write" /\ df.columns = CanonicalHeaders) =>
    /\ mapping = [k \in CanonicalFieldSet |-> CanonicalHeaders[index(FieldOrder, k)]]
    /\ \A i \in 1..Len(norm) : \E r \in 1..Len(df.rows) :
         \A j \in 1..Len(FieldOrder) : norm[i][FieldOrder[j]] = df.rows[r][j]

=============================================================================
